---- MODULE Spec2Model ----
(***************************************************************************)
(* Model of the webhook dispatch engine (package webhooks): the Manager,   *)
(* its bounded job channel, the Dispatch producers and the single worker   *)
(* goroutine that performs the HTTP sends.                                 *)
(***************************************************************************)
EXTENDS Integers, Sequences, FiniteSets, TLC

VARIABLES
    endpoints,  \* Manager.endpoints: the slice built by New
    workers,    \* number of goroutines running Manager.worker
    ch,         \* Manager.ch: the buffered job channel, a FIFO of jobs
    closeCh,    \* Manager.closeCh: "open" or "closed"
    log,        \* Manager.log: the lines printed so far
    disp,       \* per producer goroutine: its position inside Dispatch
    wpc,        \* position of the worker goroutine
    inflight,   \* jobs whose m.send has called client.Do and not returned
    panicked,   \* the process died of a runtime panic
    calls,      \* history: one record per Dispatch call made
    hEnq,       \* history: jobs put on the channel, in order
    hDrop,      \* history: jobs dropped because the channel was full
    hTaken,     \* history: jobs received by the worker, in order
    hSent,      \* history: jobs handed to client.Do, in order
    hReq,       \* history: the requests built for them, in the same order
    hDone,      \* history: jobs whose send has returned, in order
    hBegin,     \* history: per Dispatch call, what held when it began
    arHistory,  \* the rows of the table autoresponder_history
    arSent,     \* history: the calls of SendAutoresponder and how they ended
    hook,       \* per goroutine calling the autoresponder hook: its position
    hookCalls,  \* history: one record per invocation of the hook
    hookLog     \* the lines the hook has printed so far

\* The state of the webhook Manager and of its callers.
mgrvars == <<endpoints, workers, ch, closeCh, log, disp, wpc, inflight, panicked,
             calls, hEnq, hDrop, hTaken, hSent, hReq, hDone>>

\* The state of the autoresponder hook and of its database table.
hookvars == <<arHistory, arSent, hook, hookCalls, hookLog>>

vars == <<mgrvars, hBegin, hookvars>>

----------------------------------------------------------------------------
(* Bounds of the model. *)

\* Capacity of the job channel. The program allocates 1000 slots
\* (make(chan dispatchJob, 1000)); the model is checked with a small capacity.
QueueCap == 2

\* Number of Dispatch calls made in one run.
MaxDispatch == 2

\* Length in bytes of the block of the hash under the HMAC. SHA-256 has a
\* block of 64 bytes; the model is checked with a short block.
BlockSize == 3

\* The goroutines that call Dispatch.
Producers == {"p1", "p2"}

\* The goroutines that call the autoresponder hook, each of them once: the
\* handlers of two requests, which may run at the same time or one after the
\* other.
Hooks == {"h1", "h2"}

----------------------------------------------------------------------------
(* Event type constants. *)

EventSubscriberCreated == "subscriber.created"
EventSubscriberUpdated == "subscriber.updated"
EventSubscriberUnsubscribed == "subscriber.unsubscribed"
EventSubscriberConfirmed == "subscriber.confirmed"
EventSubscriberBlocklisted == "subscriber.blocklisted"
EventSubscriberDeleted == "subscriber.deleted"
EventCampaignStarted == "campaign.started"
EventCampaignFinished == "campaign.finished"
EventLinkClick == "tracking.link_click"
EventEmailOpen == "tracking.email_open"
EventBounce == "tracking.bounce"

\* The list with its last entry left out.
AllEventsWithoutBounce ==
    << EventSubscriberCreated, EventSubscriberUpdated,
       EventSubscriberUnsubscribed, EventSubscriberConfirmed,
       EventSubscriberBlocklisted, EventSubscriberDeleted,
       EventCampaignStarted, EventCampaignFinished,
       EventLinkClick, EventEmailOpen >>

AllEvents ==
    << EventSubscriberCreated, EventSubscriberUpdated,
       EventSubscriberUnsubscribed, EventSubscriberConfirmed,
       EventSubscriberBlocklisted, EventSubscriberDeleted,
       EventCampaignStarted, EventCampaignFinished,
       EventLinkClick, EventEmailOpen, EventBounce >>

Range(s) == {s[i] : i \in 1..Len(s)}

----------------------------------------------------------------------------
(* Inputs. *)

\* Event strings passed to Dispatch: a member of AllEvents and a string that
\* is not one of the constants (Dispatch takes any string).
DispatchEvents == {EventSubscriberCreated, "custom.event"}

\* Data values passed to Dispatch: a map that json.Marshal encodes, and a
\* value of a kind it rejects (a channel or func).
DataValues == {"map", "chan"}

\* Endpoint configuration records (Opt). A secret is the sequence of the bytes
\* of the string: "k1", the empty string, "k2".
OptA == [UUID |-> "u1", Name |-> "ep1", URL |-> "http://a/hook",
         Secret |-> <<107, 49>>,
         Events |-> <<EventSubscriberCreated, EventSubscriberDeleted>>,
         MaxConns |-> 0, Timeout |-> 0]
OptB == [UUID |-> "u2", Name |-> "ep2", URL |-> "http://b/hook", Secret |-> <<>>,
         Events |-> <<EventSubscriberCreated, EventCampaignStarted>>,
         MaxConns |-> 2, Timeout |-> 1]
OptC == [UUID |-> "u3", Name |-> "ep3", URL |-> "://bad", Secret |-> <<107, 50>>,
         Events |-> <<"custom.event", EventCampaignStarted, EventCampaignStarted>>,
         MaxConns |-> 0, Timeout |-> 3]

\* An endpoint whose secret ends in a zero byte: "k\x00".
OptD == [UUID |-> "u4", Name |-> "ep4", URL |-> "http://d/hook",
         Secret |-> <<107, 0>>,
         Events |-> <<EventSubscriberCreated>>,
         MaxConns |-> 0, Timeout |-> 0]

\* The configuration lists New is called with.
OptLists == { <<>>, <<OptA>>, <<OptA, OptB>>, <<OptC, OptB>>, <<OptD>> }

\* What ep.client.Do returns: a transport error, or a response status.
StatusCodes == {200, 304, 500}
Outcomes ==
    {[err |-> TRUE, status |-> 0]} \cup {[err |-> FALSE, status |-> c] : c \in StatusCodes}

----------------------------------------------------------------------------
(* New *)

DefaultTimeout == 5
DefaultMaxConns == 5

\* An endpoint built with the configured values as they are, zero included.
NewEndpointNoDefaults(o) ==
    [uuid |-> o.UUID, name |-> o.Name, url |-> o.URL, secret |-> o.Secret,
     events |-> Range(o.Events),
     timeout |-> o.Timeout,
     maxConns |-> o.MaxConns]

NewEndpoint(o) ==
    [uuid |-> o.UUID, name |-> o.Name, url |-> o.URL, secret |-> o.Secret,
     events |-> Range(o.Events),
     timeout |-> IF o.Timeout = 0 THEN DefaultTimeout ELSE o.Timeout,
     maxConns |-> IF o.MaxConns = 0 THEN DefaultMaxConns ELSE o.MaxConns]

New(opts) == [i \in 1..Len(opts) |-> NewEndpoint(opts[i])]

\* A worker started inside the loop over opts: one per endpoint.
StartWorkersPerEndpoint(opts) == Len(opts)

\* go m.worker(): the one statement that starts a worker, after the loop.
StartWorkers(opts) == 1

Init ==
    /\ \E opts \in OptLists : endpoints = New(opts) /\ workers = StartWorkers(opts)
    /\ ch = <<>>
    /\ closeCh = "open"
    /\ log = <<>>
    /\ disp = [p \in Producers |-> [pc |-> "idle"]]
    /\ wpc = "select"
    /\ inflight = {}
    /\ panicked = FALSE
    /\ calls = <<>>
    /\ hEnq = <<>>
    /\ hDrop = {}
    /\ hTaken = <<>>
    /\ hSent = <<>>
    /\ hReq = <<>>
    /\ hBegin = <<>>
    /\ arHistory = {}
    /\ arSent = <<>>
    /\ hook = [h \in Hooks |-> [pc |-> "idle"]]
    /\ hookCalls = <<>>
    /\ hookLog = <<>>
    /\ hDone = <<>>

----------------------------------------------------------------------------
(* Dispatch *)

\* An encoding whose error is ignored.
MarshalNoError(event, t, data) ==
    [err |-> FALSE, b |-> <<"event", event, "timestamp", t, "data", data>>]

\* json.Marshal(Payload{Event, Timestamp, Data}): the encoded object as a
\* sequence of its keys and values, or an error for an unsupported value.
Marshal(event, t, data) ==
    IF data = "chan"
    THEN [err |-> TRUE, b |-> <<>>]
    ELSE [err |-> FALSE, b |-> <<"event", event, "timestamp", t, "data", data>>]

\* The receiver's view of a body: json.Unmarshal(body, &p); p.Event.
PayloadEvent(b) == b[2]

\* time.Now().UTC() as read by the n-th Dispatch call: the clock has moved on
\* between two calls.
Now(n) == n

\* Dispatch without the return on an empty endpoint set.
DispatchBeginNoEarlyReturn(p, event, data) ==
    /\ ~panicked
    /\ disp[p].pc = "idle"
    /\ Len(calls) < MaxDispatch
    /\ LET id == Len(calls) + 1
           m  == Marshal(event, Now(id), data)
       IN
       IF m.err
       THEN /\ calls' = Append(calls, [event |-> event, data |-> data, ret |-> TRUE])
            /\ log' = Append(log, [msg |-> "error marshalling payload"])
            /\ UNCHANGED disp
       ELSE /\ calls' = Append(calls, [event |-> event, data |-> data, ret |-> FALSE])
            /\ disp' = [disp EXCEPT ![p] =
                          [pc |-> "loop", event |-> event, b |-> m.b,
                           idx |-> 1, call |-> id]]
            /\ UNCHANGED log
    /\ UNCHANGED <<endpoints, workers, ch, closeCh, wpc, inflight, panicked,
                   hEnq, hDrop, hTaken, hSent, hReq, hDone>>
    /\ UNCHANGED hookvars

\* Dispatch up to the loop: the empty-set return, the payload and its encoding.
DispatchBegin(p, event, data) ==
    /\ ~panicked
    /\ disp[p].pc = "idle"
    /\ Len(calls) < MaxDispatch
    /\ LET id == Len(calls) + 1
           m  == Marshal(event, Now(id), data)
       IN
       IF Len(endpoints) = 0
       THEN /\ calls' = Append(calls, [event |-> event, data |-> data, ret |-> TRUE])
            /\ UNCHANGED <<disp, log>>
       ELSE IF m.err
       THEN /\ calls' = Append(calls, [event |-> event, data |-> data, ret |-> TRUE])
            /\ log' = Append(log, [msg |-> "error marshalling payload"])
            /\ UNCHANGED disp
       ELSE /\ calls' = Append(calls, [event |-> event, data |-> data, ret |-> FALSE])
            /\ disp' = [disp EXCEPT ![p] =
                          [pc |-> "loop", event |-> event, b |-> m.b,
                           idx |-> 1, call |-> id]]
            /\ UNCHANGED log
    /\ UNCHANGED <<endpoints, workers, ch, closeCh, wpc, inflight, panicked,
                   hEnq, hDrop, hTaken, hSent, hReq, hDone>>
    /\ UNCHANGED hookvars

\* Every endpoint taken as subscribed.
SubscribedAlways(ep, event) == TRUE

\* if ep.events[event]: the membership test on the endpoint's event map.
Subscribed(ep, event) == event \in ep.events

\* A full channel makes room by discarding its oldest job, without a log line.
EnqueueDropOldest(job, event, ep) ==
    /\ ch' = IF Len(ch) < QueueCap THEN Append(ch, job) ELSE Append(Tail(ch), job)
    /\ hEnq' = Append(hEnq, job)
    /\ UNCHANGED <<log, hDrop>>

\* The capacity counted per endpoint instead of for the whole channel.
EnqueuePerEndpoint(job, event, ep) ==
    IF Cardinality({k \in 1..Len(ch) : ch[k].ep = job.ep}) < QueueCap
    THEN /\ ch' = Append(ch, job)
         /\ hEnq' = Append(hEnq, job)
         /\ UNCHANGED <<log, hDrop>>
    ELSE /\ log' = Append(log, [msg |-> "dispatch queue full, dropping event",
                                event |-> event, name |-> ep.name])
         /\ hDrop' = hDrop \cup {job}
         /\ UNCHANGED <<ch, hEnq>>

\* A plain channel send in place of the select: it waits for a free slot.
EnqueueBlocking(job, event, ep) ==
    /\ Len(ch) < QueueCap
    /\ ch' = Append(ch, job)
    /\ hEnq' = Append(hEnq, job)
    /\ UNCHANGED <<log, hDrop>>

\* A default branch that drops the job without a log line.
EnqueueSilentDrop(job, event, ep) ==
    IF Len(ch) < QueueCap
    THEN /\ ch' = Append(ch, job)
         /\ hEnq' = Append(hEnq, job)
         /\ UNCHANGED <<log, hDrop>>
    ELSE UNCHANGED <<ch, log, hEnq, hDrop>>

\* A select that lets a job on the channel only while closeCh is open.
EnqueueRefusedAfterClose(job, event, ep) ==
    IF Len(ch) < QueueCap /\ closeCh = "open"
    THEN /\ ch' = Append(ch, job)
         /\ hEnq' = Append(hEnq, job)
         /\ UNCHANGED <<log, hDrop>>
    ELSE /\ log' = Append(log, [msg |-> "dispatch queue full, dropping event",
                                event |-> event, name |-> ep.name])
         /\ hDrop' = hDrop \cup {job}
         /\ UNCHANGED <<ch, hEnq>>

\* A select that puts the job at the head of the channel.
EnqueueAtFront(job, event, ep) ==
    IF Len(ch) < QueueCap
    THEN /\ ch' = <<job>> \o ch
         /\ hEnq' = <<job>> \o hEnq
         /\ UNCHANGED <<log, hDrop>>
    ELSE /\ log' = Append(log, [msg |-> "dispatch queue full, dropping event",
                                event |-> event, name |-> ep.name])
         /\ hDrop' = hDrop \cup {job}
         /\ UNCHANGED <<ch, hEnq>>

\* The select with a default branch: the job goes on the channel if a slot is
\* free, otherwise the drop is logged; neither branch waits.
Enqueue(job, event, ep) ==
    IF Len(ch) < QueueCap
    THEN /\ ch' = Append(ch, job)
         /\ hEnq' = Append(hEnq, job)
         /\ UNCHANGED <<log, hDrop>>
    ELSE /\ log' = Append(log, [msg |-> "dispatch queue full, dropping event",
                                event |-> event, name |-> ep.name])
         /\ hDrop' = hDrop \cup {job}
         /\ UNCHANGED <<ch, hEnq>>

\* The loop left as soon as a job is dropped.
DispatchAdvanceAbortOnDrop(p) ==
    IF \/ disp[p].idx = Len(endpoints)
       \/ /\ disp[p].event \in endpoints[disp[p].idx].events
          /\ Len(ch) >= QueueCap
    THEN /\ disp' = [disp EXCEPT ![p] = [pc |-> "idle"]]
         /\ calls' = [calls EXCEPT ![disp[p].call].ret = TRUE]
    ELSE /\ disp' = [disp EXCEPT ![p].idx = @ + 1]
         /\ UNCHANGED calls

\* The loop left after its first iteration.
DispatchAdvanceBreak(p) ==
    /\ disp' = [disp EXCEPT ![p] = [pc |-> "idle"]]
    /\ calls' = [calls EXCEPT ![disp[p].call].ret = TRUE]

\* The range loop moves to the next endpoint; after the last one Dispatch
\* returns.
DispatchAdvance(p) ==
    IF disp[p].idx = Len(endpoints)
    THEN /\ disp' = [disp EXCEPT ![p] = [pc |-> "idle"]]
         /\ calls' = [calls EXCEPT ![disp[p].call].ret = TRUE]
    ELSE /\ disp' = [disp EXCEPT ![p].idx = @ + 1]
         /\ UNCHANGED calls

\* A loop body that calls m.send itself for a subscribed endpoint, on the
\* caller's goroutine.
DispatchStepSendInline(p) ==
    /\ ~panicked
    /\ disp[p].pc = "loop"
    /\ LET d   == disp[p]
           ep  == endpoints[d.idx]
           job == [ep |-> d.idx, payload |-> d.b, call |-> d.call]
       IN
       IF d.event \in ep.events
       THEN /\ hSent' = Append(hSent, job)
            /\ hReq' = Append(hReq, [method |-> "POST", url |-> ep.url,
                                     body |-> job.payload])
            /\ hDone' = Append(hDone, job)
       ELSE UNCHANGED <<hSent, hReq, hDone>>
    /\ DispatchAdvance(p)
    /\ UNCHANGED <<endpoints, workers, ch, log, closeCh, wpc, inflight, panicked,
                   hEnq, hDrop, hTaken>>
    /\ UNCHANGED <<hBegin, hookvars>>

\* One iteration of the loop over m.endpoints.
DispatchStep(p) ==
    /\ ~panicked
    /\ disp[p].pc = "loop"
    /\ LET d   == disp[p]
           ep  == endpoints[d.idx]
           job == [ep |-> d.idx, payload |-> d.b, call |-> d.call]
       IN
       IF Subscribed(ep, d.event)
       THEN Enqueue(job, d.event, ep)
       ELSE UNCHANGED <<ch, log, hEnq, hDrop>>
    /\ DispatchAdvance(p)
    /\ UNCHANGED <<endpoints, workers, closeCh, wpc, inflight, panicked,
                   hTaken, hSent, hReq, hDone>>
    /\ UNCHANGED <<hBegin, hookvars>>

----------------------------------------------------------------------------
(* worker and send *)

\* http.NewRequest fails on a URL that does not parse.
ValidURL(url) == url # "://bad"

\* crypto/hmac prepares the key before use: a key longer than the hash's
\* block is replaced by its SHA-256 digest (taken as an ideal hash: the digest
\* fixes the key), and the key is then filled with zero bytes to the length
\* of the block.
KeyBlock(key) ==
    IF Len(key) > BlockSize
    THEN [hashed |-> TRUE, bytes |-> key]
    ELSE [hashed |-> FALSE,
          bytes |-> key \o [i \in 1..(BlockSize - Len(key)) |-> 0]]

\* crypto/hmac with sha256.New: the tag of msg under key, taken as an ideal
\* MAC of the prepared key and the message (the tag fixes both).
HmacSha256(key, msg) == [key |-> KeyBlock(key), msg |-> msg]

\* encoding/hex EncodeToString: the lowercase hex string of the bytes. A
\* string of a header is a sequence of pieces: hex digits [hex |-> bytes] or
\* literal text [lit |-> "..."].
HexEncode(bytes) == <<[hex |-> bytes]>>

\* A MAC made with an empty key in place of the endpoint's secret.
computeHMACUnkeyed(payload, secret) == HexEncode(HmacSha256(<<>>, payload))

\* A MAC into which the payload is never written.
computeHMACKeyOnly(payload, secret) == HexEncode(HmacSha256(secret, <<>>))

\* computeHMAC generates the HMAC-SHA256 signature.
computeHMAC(payload, secret) == HexEncode(HmacSha256(secret, payload))

\* The header lines send sets on the request.
RequestHeader(ep, payload) ==
    [n \in {"Content-Type", "User-Agent"} |->
        IF n = "Content-Type" THEN <<"application/json">> ELSE <<"listmonk">>]
    @@ (IF ep.secret # <<>>
        THEN "X-Webhook-Signature" :> (<<[lit |-> "sha256="]>> \o computeHMAC(payload, ep.secret))
        ELSE [n \in {} |-> <<>>])

\* A request whose body is the payload with a line end added, signed over
\* the payload.
NewRequestTrailingNewline(ep, payload) ==
    [method |-> "POST", url |-> ep.url, body |-> Append(payload, "\n"),
     header |-> RequestHeader(ep, payload)]

\* The request send hands to ep.client.Do.
NewRequest(ep, payload) ==
    [method |-> "POST", url |-> ep.url, body |-> payload,
     header |-> RequestHeader(ep, payload)]

\* A worker that hands each job to a goroutine of its own (go m.send).
WorkerAtSelectOrSending == wpc \in {"select", "sending"}

\* The worker is at its select: the loop comes back to it only after m.send
\* has returned.
WorkerAtSelect == wpc = "select"

\* A receive that takes the newest job.
ChanRecvLast == [job |-> ch[Len(ch)], rest |-> SubSeq(ch, 1, Len(ch) - 1)]

\* A receive that reads the oldest job and leaves it on the channel.
ChanRecvPeek == [job |-> Head(ch), rest |-> ch]

\* <-m.ch: the receive takes the oldest job of the channel.
ChanRecv == [job |-> Head(ch), rest |-> Tail(ch)]

\* case job := <-m.ch, then m.send up to the call of ep.client.Do.
WorkerRecv ==
    /\ ~panicked
    /\ WorkerAtSelect
    /\ Len(ch) > 0
    /\ LET job == ChanRecv.job
           ep  == endpoints[job.ep]
       IN
       /\ ch' = ChanRecv.rest
       /\ hTaken' = Append(hTaken, job)
       /\ IF ValidURL(ep.url)
          THEN /\ inflight' = inflight \cup {job}
               /\ hSent' = Append(hSent, job)
               /\ hReq' = Append(hReq, NewRequest(ep, job.payload))
               /\ wpc' = "sending"
               /\ UNCHANGED log
          ELSE /\ log' = Append(log, [msg |-> "error creating request", name |-> ep.name])
               /\ UNCHANGED <<inflight, hSent, hReq, wpc>>
    /\ UNCHANGED <<endpoints, workers, closeCh, disp, panicked, calls, hEnq, hDrop, hDone>>
    /\ UNCHANGED <<hBegin, hookvars>>

\* The log after send has handled what ep.client.Do returned.
SendLog(job, outcome) ==
    IF outcome.err
    THEN Append(log, [msg |-> "error sending", name |-> endpoints[job.ep].name])
    ELSE IF outcome.status >= 400
    THEN Append(log, [msg |-> "non-OK response",
                      name |-> endpoints[job.ep].name, status |-> outcome.status])
    ELSE log

\* A send that puts a failed job back on the channel.
WorkerSendReturnRetry(outcome) ==
    /\ ~panicked
    /\ wpc = "sending"
    /\ \E job \in inflight :
         /\ inflight' = inflight \ {job}
         /\ hDone' = Append(hDone, job)
         /\ log' = SendLog(job, outcome)
         /\ ch' = IF (outcome.err \/ outcome.status >= 400) /\ Len(ch) < QueueCap
                  THEN Append(ch, job) ELSE ch
         /\ wpc' = IF inflight' = {} THEN "select" ELSE "sending"
    /\ UNCHANGED <<endpoints, workers, closeCh, disp, panicked,
                   calls, hEnq, hDrop, hTaken, hSent, hReq>>
    /\ UNCHANGED <<hBegin, hookvars>>

\* A send whose failure ends the worker goroutine.
WorkerSendReturnStopOnError(outcome) ==
    /\ ~panicked
    /\ wpc = "sending"
    /\ \E job \in inflight :
         /\ inflight' = inflight \ {job}
         /\ hDone' = Append(hDone, job)
         /\ log' = SendLog(job, outcome)
         /\ wpc' = IF outcome.err \/ outcome.status >= 400 THEN "stopped"
                   ELSE IF inflight' = {} THEN "select" ELSE "sending"
    /\ UNCHANGED <<endpoints, workers, ch, closeCh, disp, panicked,
                   calls, hEnq, hDrop, hTaken, hSent, hReq>>
    /\ UNCHANGED <<hBegin, hookvars>>

\* ep.client.Do returns, and send handles the error or the response.
WorkerSendReturn(outcome) ==
    /\ ~panicked
    /\ wpc = "sending"
    /\ \E job \in inflight :
         /\ inflight' = inflight \ {job}
         /\ hDone' = Append(hDone, job)
         /\ log' = SendLog(job, outcome)
         /\ wpc' = IF inflight' = {} THEN "select" ELSE "sending"
    /\ UNCHANGED <<endpoints, workers, ch, closeCh, disp, panicked,
                   calls, hEnq, hDrop, hTaken, hSent, hReq>>
    /\ UNCHANGED <<hBegin, hookvars>>

\* A worker loop without a case for closeCh.
WorkerStopNever ==
    /\ FALSE
    /\ UNCHANGED vars

\* case <-m.closeCh: return
WorkerStop ==
    /\ ~panicked
    /\ WorkerAtSelect
    /\ closeCh = "closed"
    /\ wpc' = "stopped"
    /\ UNCHANGED <<endpoints, workers, ch, closeCh, log, disp, inflight, panicked,
                   calls, hEnq, hDrop, hTaken, hSent, hReq, hDone>>
    /\ UNCHANGED <<hBegin, hookvars>>

----------------------------------------------------------------------------
(* Close *)

\* A Close that also releases the endpoint slice.
CloseClearsEndpoints ==
    /\ ~panicked
    /\ IF closeCh = "open"
       THEN closeCh' = "closed" /\ UNCHANGED panicked
       ELSE panicked' = TRUE /\ UNCHANGED closeCh
    /\ endpoints' = <<>>
    /\ UNCHANGED <<workers, ch, log, disp, wpc, inflight,
                   calls, hEnq, hDrop, hTaken, hSent, hReq, hDone>>
    /\ UNCHANGED <<hBegin, hookvars>>

\* close(m.closeCh): closing a closed channel panics.
Close ==
    /\ ~panicked
    /\ IF closeCh = "open"
       THEN closeCh' = "closed" /\ UNCHANGED panicked
       ELSE panicked' = TRUE /\ UNCHANGED closeCh
    /\ UNCHANGED <<endpoints, workers, ch, log, disp, wpc, inflight,
                   calls, hEnq, hDrop, hTaken, hSent, hReq, hDone>>
    /\ UNCHANGED <<hBegin, hookvars>>

----------------------------------------------------------------------------
(* HasEndpoints *)

\* A test for more than one endpoint.
HasEndpointsMoreThanOne == Len(endpoints) > 1

\* return len(m.endpoints) > 0
HasEndpoints == Len(endpoints) > 0

----------------------------------------------------------------------------

\* A step of the Manager or of one of its callers. The autoresponder hook is
\* another part of the program and shares no state with the Manager: it
\* stands still here and runs under HookSpec.
Next ==
    \/ /\ \E p \in Producers, e \in DispatchEvents, d \in DataValues :
             DispatchBegin(p, e, d)
       /\ UNCHANGED hBegin
    \/ \E p \in Producers : DispatchStep(p)
    \/ WorkerRecv
    \/ \E o \in Outcomes : WorkerSendReturn(o)
    \/ WorkerStop
    \/ Close

Spec == Init /\ [][Next]_vars

\* The send in flight returns: ep.client.Do ends with a response or, at the
\* latest when the client's Timeout expires, with an error.
WorkerSendReturns == \E o \in Outcomes : WorkerSendReturn(o)

\* The worker goroutine is scheduled; a send in flight returns; and the
\* select, which picks among its ready cases at random, does not pass over
\* the closeCh case for ever when it is ready again and again.
FairSpec ==
    /\ Spec
    /\ WF_vars(WorkerRecv)
    /\ WF_vars(WorkerSendReturns)
    /\ SF_vars(WorkerStop)

\* What holds when a Dispatch call begins: whether closeCh is closed
\* already, and which of the earlier calls have returned.
AtBegin == [closed |-> closeCh = "closed",
            prior  |-> {c \in 1..Len(calls) : calls[c].ret}]

\* The same steps, with the history of what held when each call began.
HistNext ==
    \/ /\ \E p \in Producers, e \in DispatchEvents, d \in DataValues :
             DispatchBegin(p, e, d)
       /\ hBegin' = Append(hBegin, AtBegin)
    \/ \E p \in Producers : DispatchStep(p)
    \/ WorkerRecv
    \/ \E o \in Outcomes : WorkerSendReturn(o)
    \/ WorkerStop
    \/ Close

HistSpec == Init /\ [][HistNext]_vars

----------------------------------------------------------------------------
(* The autoresponder hook (makeAutoresponderHook) and the table behind it. *)

\* models.SubscriberStatusEnabled
SubscriberStatusEnabled == "enabled"

\* The subscribers the hook is called for: an enabled one and a blocklisted
\* one.
HookSubscribers ==
    { [ID |-> 1, Status |-> SubscriberStatusEnabled],
      [ID |-> 2, Status |-> "blocklisted"] }

\* The listIDs arguments the hook is called with.
HookListIDs == { <<1>>, <<1, 2>> }

\* The rows get-autoresponders-for-list selects for a list: the running
\* autoresponder campaigns attached to it. List 1 has two campaigns sent on
\* confirmation; list 2 has one sent on subscription and shares campaign 10.
AutoresponderCampaigns(listID) ==
    IF listID = 1
    THEN << [ID |-> 10, Name |-> "c10", ARTriggerOnConfirm |-> TRUE],
            [ID |-> 11, Name |-> "c11", ARTriggerOnConfirm |-> TRUE] >>
    ELSE << [ID |-> 12, Name |-> "c12", ARTriggerOnConfirm |-> FALSE],
            [ID |-> 10, Name |-> "c10", ARTriggerOnConfirm |-> TRUE] >>

\* Core.GetAutorespondersForList: the campaigns of the list, or an error of
\* the query.
GetAutorespondersForList(listID, err) ==
    IF err
    THEN [err |-> TRUE, camps |-> <<>>]
    ELSE [err |-> FALSE, camps |-> AutoresponderCampaigns(listID)]

\* Core.HasReceivedAutoresponder when the query succeeds: whether the table
\* holds a row for the campaign, the subscriber and the list.
HasReceivedAutoresponder(campaignID, subscriberID, listID) ==
    <<campaignID, subscriberID, listID>> \in arHistory

\* Core.RecordAutoresponderSent when the statement succeeds: the table with
\* the row inserted, or as it was if the row is there (ON CONFLICT DO
\* NOTHING on the UNIQUE triple).
RecordAutoresponderSent(campaignID, subscriberID, listID) ==
    arHistory \cup {<<campaignID, subscriberID, listID>>}

\* A trigger test that lets every campaign pass.
TriggerMatchesAlways(camp, isConfirmation) == TRUE

\* camp.ARTriggerOnConfirm != isConfirmation, negated: the campaign is
\* triggered by this kind of call.
TriggerMatches(camp, isConfirmation) == camp.ARTriggerOnConfirm = isConfirmation

\* The lines an error of a core function leaves: core prints one and the
\* hook prints one.
HookErrorLines(coreMsg, hookLine) ==
    hookLog \o << [from |-> "core", msg |-> coreMsg], hookLine >>

\* continue in the loop over listIDs, or the end of the loop: return nil.
HookAfterList(s) ==
    IF s.li < Len(s.listIDs)
    THEN [s EXCEPT !.pc = "fetch", !.li = @ + 1, !.camps = <<>>, !.ci = 0]
    ELSE [pc |-> "done"]

\* continue in the loop over camps, or the end of that loop.
HookAfterCamp(s) ==
    IF s.ci < Len(s.camps)
    THEN [s EXCEPT !.pc = "check", !.ci = @ + 1]
    ELSE HookAfterList(s)

\* The goroutine h moves to position s2; at the end of the hook its caller
\* gets nil.
HookGoto(h, s2) ==
    /\ hook' = [hook EXCEPT ![h] = s2]
    /\ hookCalls' = IF s2.pc = "done"
                    THEN [hookCalls EXCEPT ![hook[h].call].ret = "nil"]
                    ELSE hookCalls

\* The hook is called: the test of the subscriber's status, and the entry
\* into the loop over listIDs.
HookCall(h, sub, listIDs, isConfirmation) ==
    /\ hook[h].pc = "idle"
    /\ LET id   == Len(hookCalls) + 1
           call == [sub |-> sub, listIDs |-> listIDs,
                    isConfirmation |-> isConfirmation, ret |-> "none"]
       IN
       IF sub.Status # SubscriberStatusEnabled \/ listIDs = <<>>
       THEN /\ hookCalls' = Append(hookCalls, [call EXCEPT !.ret = "nil"])
            /\ hook' = [hook EXCEPT ![h] = [pc |-> "done"]]
       ELSE /\ hookCalls' = Append(hookCalls, call)
            /\ hook' = [hook EXCEPT ![h] =
                          [pc |-> "fetch", call |-> id, sub |-> sub,
                           listIDs |-> listIDs, isConfirmation |-> isConfirmation,
                           li |-> 1, camps |-> <<>>, ci |-> 0]]
    /\ UNCHANGED <<arHistory, arSent, hookLog>>
    /\ UNCHANGED <<mgrvars, hBegin>>

\* A hook that hands the error of GetAutorespondersForList to its caller.
HookFetchReturnsError(h, err) ==
    /\ hook[h].pc = "fetch"
    /\ LET s      == hook[h]
           listID == s.listIDs[s.li]
           r      == GetAutorespondersForList(listID, err)
       IN
       IF r.err
       THEN /\ hookLog' = HookErrorLines("error fetching autoresponders for list",
                             [from |-> "hook",
                              msg |-> "error fetching autoresponders for list",
                              list |-> listID])
            /\ hook' = [hook EXCEPT ![h] = [pc |-> "done"]]
            /\ hookCalls' = [hookCalls EXCEPT ![s.call].ret = "error"]
       ELSE /\ IF r.camps = <<>>
               THEN HookGoto(h, HookAfterList(s))
               ELSE HookGoto(h, [s EXCEPT !.pc = "check", !.camps = r.camps, !.ci = 1])
            /\ UNCHANGED hookLog
    /\ UNCHANGED <<arHistory, arSent>>
    /\ UNCHANGED <<mgrvars, hBegin>>

\* The head of the loop over listIDs: GetAutorespondersForList and its
\* error branch.
HookFetch(h, err) ==
    /\ hook[h].pc = "fetch"
    /\ LET s      == hook[h]
           listID == s.listIDs[s.li]
           r      == GetAutorespondersForList(listID, err)
       IN
       IF r.err
       THEN /\ hookLog' = HookErrorLines("error fetching autoresponders for list",
                             [from |-> "hook",
                              msg |-> "error fetching autoresponders for list",
                              list |-> listID])
            /\ HookGoto(h, HookAfterList(s))
       ELSE /\ IF r.camps = <<>>
               THEN HookGoto(h, HookAfterList(s))
               ELSE HookGoto(h, [s EXCEPT !.pc = "check", !.camps = r.camps, !.ci = 1])
            /\ UNCHANGED hookLog
    /\ UNCHANGED <<arHistory, arSent>>
    /\ UNCHANGED <<mgrvars, hBegin>>

\* The head of the loop over camps: the trigger test, then
\* HasReceivedAutoresponder with its error branch and the test of its answer.
HookCheck(h, err) ==
    /\ hook[h].pc = "check"
    /\ LET s      == hook[h]
           listID == s.listIDs[s.li]
           camp   == s.camps[s.ci]
       IN
       IF ~TriggerMatches(camp, s.isConfirmation)
       THEN /\ HookGoto(h, HookAfterCamp(s))
            /\ UNCHANGED hookLog
       ELSE IF err
       THEN /\ hookLog' = HookErrorLines("error checking autoresponder sent status",
                             [from |-> "hook",
                              msg |-> "error checking autoresponder status"])
            /\ HookGoto(h, HookAfterCamp(s))
       ELSE IF HasReceivedAutoresponder(camp.ID, s.sub.ID, listID)
       THEN /\ HookGoto(h, HookAfterCamp(s))
            /\ UNCHANGED hookLog
       ELSE /\ HookGoto(h, [s EXCEPT !.pc = "send"])
            /\ UNCHANGED hookLog
    /\ UNCHANGED <<arHistory, arSent>>
    /\ UNCHANGED <<mgrvars, hBegin>>

\* A hook that writes the row before it sends, whatever the send returns.
HookSendRecordsFirst(h, err) ==
    /\ hook[h].pc = "send"
    /\ LET s      == hook[h]
           listID == s.listIDs[s.li]
           camp   == s.camps[s.ci]
       IN
       /\ arHistory' = RecordAutoresponderSent(camp.ID, s.sub.ID, listID)
       /\ IF err
          THEN /\ hookLog' = Append(hookLog,
                                [from |-> "hook", msg |-> "error sending autoresponder",
                                 camp |-> camp.Name, sub |-> s.sub.ID])
               /\ arSent' = Append(arSent, [camp |-> camp.ID, sub |-> s.sub.ID,
                                            list |-> listID, call |-> s.call,
                                            ok |-> FALSE])
               /\ HookGoto(h, HookAfterCamp(s))
          ELSE /\ arSent' = Append(arSent, [camp |-> camp.ID, sub |-> s.sub.ID,
                                            list |-> listID, call |-> s.call,
                                            ok |-> TRUE])
               /\ HookGoto(h, HookAfterCamp(s))
               /\ UNCHANGED hookLog
    /\ UNCHANGED <<mgrvars, hBegin>>

\* m.SendAutoresponder(&camp, sub) and its error branch. An entry of arSent
\* is one call of SendAutoresponder: the campaign and the subscriber, the
\* list and the invocation it was made for, and whether the message was sent
\* (ok) or the call returned an error.
HookSend(h, err) ==
    /\ hook[h].pc = "send"
    /\ LET s      == hook[h]
           listID == s.listIDs[s.li]
           camp   == s.camps[s.ci]
       IN
       IF err
       THEN /\ hookLog' = Append(hookLog,
                             [from |-> "hook", msg |-> "error sending autoresponder",
                              camp |-> camp.Name, sub |-> s.sub.ID])
            /\ arSent' = Append(arSent, [camp |-> camp.ID, sub |-> s.sub.ID,
                                         list |-> listID, call |-> s.call,
                                         ok |-> FALSE])
            /\ HookGoto(h, HookAfterCamp(s))
       ELSE /\ arSent' = Append(arSent, [camp |-> camp.ID, sub |-> s.sub.ID,
                                         list |-> listID, call |-> s.call,
                                         ok |-> TRUE])
            /\ HookGoto(h, [s EXCEPT !.pc = "record"])
            /\ UNCHANGED hookLog
    /\ UNCHANGED arHistory
    /\ UNCHANGED <<mgrvars, hBegin>>

\* co.RecordAutoresponderSent and its error branch, the end of the loop body.
HookRecord(h, err) ==
    /\ hook[h].pc = "record"
    /\ LET s      == hook[h]
           listID == s.listIDs[s.li]
           camp   == s.camps[s.ci]
       IN
       /\ IF err
          THEN /\ hookLog' = HookErrorLines("error recording autoresponder sent",
                                [from |-> "hook",
                                 msg |-> "error recording autoresponder sent"])
               /\ UNCHANGED arHistory
          ELSE /\ arHistory' = RecordAutoresponderSent(camp.ID, s.sub.ID, listID)
               /\ UNCHANGED hookLog
       /\ HookGoto(h, HookAfterCamp(s))
    /\ UNCHANGED arSent
    /\ UNCHANGED <<mgrvars, hBegin>>

\* A step of a goroutine that runs the hook.
HookNext ==
    \/ \E h \in Hooks, sub \in HookSubscribers, l \in HookListIDs, c \in BOOLEAN :
         HookCall(h, sub, l, c)
    \/ \E h \in Hooks, err \in BOOLEAN : HookFetch(h, err)
    \/ \E h \in Hooks, err \in BOOLEAN : HookCheck(h, err)
    \/ \E h \in Hooks, err \in BOOLEAN : HookSend(h, err)
    \/ \E h \in Hooks, err \in BOOLEAN : HookRecord(h, err)

\* The hook next to a Manager without endpoints, which stands still.
HookInit == Init /\ endpoints = New(<<>>)

HookSpec == HookInit /\ [][HookNext]_vars

----------------------------------------------------------------------------
(* Helpers for the properties. *)

Count(s, x) == Cardinality({i \in 1..Len(s) : s[i] = x})

\* The job Dispatch call c builds for the endpoint at index i.
JobOf(c, i) ==
    [ep |-> i, payload |-> Marshal(calls[c].event, Now(c), calls[c].data).b, call |-> c]

\* Dispatch call c got past the encoding of its payload and into the loop.
ReachedLoop(c) ==
    /\ Len(endpoints) > 0
    /\ ~Marshal(calls[c].event, Now(c), calls[c].data).err

\* The producer p is about to try the channel for a subscribed endpoint.
AtEnqueue(p) ==
    /\ disp[p].pc = "loop"
    /\ Subscribed(endpoints[disp[p].idx], disp[p].event)

----------------------------------------------------------------------------
(* C1: Dispatch never blocks. In every reachable state of a live process,   *)
(* whatever the channel holds and wherever the worker is (at its select,    *)
(* inside a send, or stopped after Close), a producer inside the loop of    *)
(* Dispatch can take its next step at once, and an idle producer can start  *)
(* a call: no step of Dispatch waits for the worker or a send.              *)
C1_DispatchNeverBlocks ==
    ~panicked =>
        \A p \in Producers :
            /\ disp[p].pc = "loop" => ENABLED DispatchStep(p)
            /\ (disp[p].pc = "idle" /\ Len(calls) < MaxDispatch) =>
                  \A e \in DispatchEvents, d \in DataValues :
                      ENABLED DispatchBegin(p, e, d)

\* A producer stands before a full channel for a subscribed endpoint while
\* the worker has stopped, and an earlier attempt has already met the full
\* channel and returned.
C1_Witness ==
    /\ ~panicked
    /\ Len(ch) = QueueCap
    /\ wpc = "stopped"
    /\ hDrop # {}
    /\ \E p \in Producers : AtEnqueue(p)

----------------------------------------------------------------------------
(* C2: filtering correctness. No job is ever put on the channel, received  *)
(* by the worker or sent for an endpoint whose event set does not contain  *)
(* the event of the Dispatch call it comes from; the event the receiver    *)
(* reads in a request body is one its endpoint subscribed to.              *)
C2_FilteringCorrectness ==
    /\ \A c \in 1..Len(calls), i \in 1..Len(endpoints) :
          calls[c].event \notin endpoints[i].events =>
              \A h \in {hEnq, hTaken, hSent} :
                  \A k \in 1..Len(h) : ~(h[k].call = c /\ h[k].ep = i)
    /\ \A k \in 1..Len(hSent) :
          PayloadEvent(hSent[k].payload) \in endpoints[hSent[k].ep].events

\* The jobs whose send has returned.
DoneJobs == Range(hDone)

\* A call has returned whose event one endpoint does not subscribe to while
\* another does, and the request for the subscribed one has been sent.
C2_Witness ==
    \E c \in 1..Len(calls), i, j \in 1..Len(endpoints) :
        /\ calls[c].ret
        /\ calls[c].event \notin endpoints[i].events
        /\ calls[c].event \in endpoints[j].events
        /\ JobOf(c, j) \in DoneJobs

----------------------------------------------------------------------------
(* C3: fan-out correctness. For a Dispatch call that has returned and each *)
(* endpoint subscribed to its event whose attempt found a free slot: the   *)
(* job was put on the channel exactly once; it is either still on the      *)
(* channel or was received by the worker (m.send called) exactly once; a   *)
(* received job produced exactly one request (none when the URL does not   *)
(* parse), which is in flight or has returned once. So once the channel    *)
(* holds the job no more and nothing is in flight, the endpoint has been   *)
(* sent exactly one request for the call.                                  *)
C3_FanOut ==
    \A c \in 1..Len(calls) :
        (calls[c].ret /\ ReachedLoop(c)) =>
            \A i \in 1..Len(endpoints) :
                LET j == JobOf(c, i) IN
                (calls[c].event \in endpoints[i].events /\ j \notin hDrop) =>
                    /\ Count(hEnq, j) = 1
                    /\ Count(ch, j) + Count(hTaken, j) = 1
                    /\ Count(hSent, j) =
                         (IF Count(hTaken, j) = 1 /\ ValidURL(endpoints[i].url)
                          THEN 1 ELSE 0)
                    /\ Count(hSent, j) =
                         (IF j \in inflight THEN 1 ELSE 0)
                         + Count(hDone, j)

\* Two endpoints subscribed to the event of one call, the Manager open, and
\* both requests sent and answered.
C3_Witness ==
    \E c \in 1..Len(calls) :
        /\ calls[c].ret
        /\ closeCh = "open"
        /\ Len(endpoints) = 2
        /\ \A i \in 1..2 :
              /\ calls[c].event \in endpoints[i].events
              /\ JobOf(c, i) \in DoneJobs
              /\ Count(hSent, JobOf(c, i)) = 1

----------------------------------------------------------------------------
(* C4: at-most-once, no retry. For every Dispatch call and endpoint there  *)
(* is at most one enqueue, one receive and one request; and a job whose    *)
(* send has returned, with whatever outcome, is neither on the channel nor *)
(* in flight again.                                                        *)
C4_AtMostOnce ==
    /\ \A c \in 1..Len(calls), i \in 1..Len(endpoints) :
          \A h \in {hEnq, hTaken, hSent} :
              Cardinality({k \in 1..Len(h) : h[k].call = c /\ h[k].ep = i}) <= 1
    /\ \A k \in 1..Len(hDone) :
          /\ Count(ch, hDone[k]) = 0
          /\ hDone[k] \notin inflight

\* A send has failed (transport error or error status), and the worker has
\* since gone on: the channel is empty and nothing is in flight.
C4_Witness ==
    /\ \E k \in 1..Len(log) : log[k].msg \in {"error sending", "non-OK response"}
    /\ Len(hDone) >= 2
    /\ ch = <<>>
    /\ inflight = {}
    /\ wpc = "select"

----------------------------------------------------------------------------
(* C5: overflow drop. A step of Dispatch that tries the channel for a      *)
(* subscribed endpoint while the channel holds QueueCap jobs leaves the    *)
(* channel as it was and appends one line to the log that names the event  *)
(* and the endpoint.                                                       *)
C5_OverflowDrop ==
    [][\A p \in Producers :
          ( /\ disp[p].pc = "loop"
            /\ disp'[p] # disp[p]
            /\ disp[p].event \in endpoints[disp[p].idx].events
            /\ Len(ch) = QueueCap )
          => /\ ch' = ch
             /\ log' = Append(log, [msg |-> "dispatch queue full, dropping event",
                                     event |-> disp[p].event,
                                     name |-> endpoints[disp[p].idx].name])]_vars

\* A job has just been dropped: the channel is full and the last line of the
\* log reports the drop.
C5_Witness ==
    /\ hDrop # {}
    /\ Len(ch) = QueueCap
    /\ Len(log) > 0
    /\ log[Len(log)].msg = "dispatch queue full, dropping event"

----------------------------------------------------------------------------
(* C6: drop isolation. Every iteration of the loop of Dispatch, also one   *)
(* that dropped its job, goes on to the next endpoint with the same event  *)
(* and payload, and the call returns only after the last endpoint; and an  *)
(* iteration for a subscribed endpoint that finds a free slot puts its job *)
(* on the channel, whatever happened to the endpoints before it.           *)
C6_DropIsolation ==
    [][\A p \in Producers :
          (disp[p].pc = "loop" /\ disp'[p] # disp[p]) =>
              LET d == disp[p] IN
              /\ IF d.idx < Len(endpoints)
                 THEN disp'[p] = [d EXCEPT !.idx = d.idx + 1]
                 ELSE disp'[p].pc = "idle"
              /\ (d.event \in endpoints[d.idx].events /\ Len(ch) < QueueCap) =>
                    ch' = Append(ch, [ep |-> d.idx, payload |-> d.b, call |-> d.call])]_vars

\* One call dropped its job for the first endpoint and put its job for the
\* second endpoint on the channel.
C6_Witness ==
    \E c \in 1..Len(calls) :
        /\ Len(endpoints) = 2
        /\ ReachedLoop(c)
        /\ JobOf(c, 1) \in hDrop
        /\ Count(hEnq, JobOf(c, 2)) = 1

----------------------------------------------------------------------------
(* C7: bounded shared queue. The channel never holds more than QueueCap    *)
(* jobs, counting the jobs of all endpoints together.                      *)
C7_BoundedQueue == Len(ch) <= QueueCap

\* The channel is full, and a job was dropped for an endpoint that has fewer
\* than QueueCap jobs of its own on it.
C7_Witness ==
    /\ Len(ch) = QueueCap
    /\ \E j \in hDrop :
          Cardinality({k \in 1..Len(ch) : ch[k].ep = j.ep}) < QueueCap

----------------------------------------------------------------------------
(* C8: per-endpoint FIFO. If two jobs for the same endpoint were put on    *)
(* the channel one after the other and the worker has received the later   *)
(* one, then it received the earlier one before it, the send of the        *)
(* earlier one is no longer in flight, and where requests were made the    *)
(* earlier request returned before the later one.                          *)
Pos(s, x) == CHOOSE i \in 1..Len(s) : s[i] = x

C8_PerEndpointFIFO ==
    \A a, b \in 1..Len(hEnq) :
        LET j1 == hEnq[a]
            j2 == hEnq[b]
        IN
        (a < b /\ j1.ep = j2.ep /\ Count(hTaken, j2) > 0) =>
            /\ Count(hTaken, j1) > 0
            /\ Pos(hTaken, j1) < Pos(hTaken, j2)
            /\ j1 \notin inflight
            /\ Count(hSent, j2) > 0 =>
                  /\ Count(hSent, j1) > 0
                  /\ Pos(hSent, j1) < Pos(hSent, j2)
                  /\ j1 \in DoneJobs
                  /\ j2 \in DoneJobs =>
                        \E x, y \in 1..Len(hDone) :
                            x < y /\ hDone[x] = j1 /\ hDone[y] = j2

\* Two jobs of different calls for one endpoint have both been sent.
C8_Witness ==
    \E x, y \in 1..Len(hDone) :
        /\ x < y
        /\ hDone[x].ep = hDone[y].ep
        /\ hDone[x].call # hDone[y].call

----------------------------------------------------------------------------
(* C9: serialized delivery. At most one send is in flight at any time, and *)
(* the worker receives a job from the channel only when no send is in      *)
(* flight.                                                                 *)
C9_SerializedDelivery ==
    [][ /\ Cardinality(inflight') <= 1
        /\ hTaken' # hTaken => inflight = {} ]_vars

\* A send is in flight while a job for another endpoint waits at the head of
\* the channel.
C9_Witness ==
    \E j \in inflight :
        /\ Len(ch) > 0
        /\ Head(ch).ep # j.ep

----------------------------------------------------------------------------
(* C10: closing stops consumption. Once closeCh is closed the worker       *)
(* receives no further job from the channel.                               *)
C10_NoConsumptionAfterClose ==
    [][closeCh = "closed" => hTaken' = hTaken]_vars

----------------------------------------------------------------------------
(* C11: multiple calls of Close are safe. No call of Close, the first or a *)
(* later one, panics; a Close on a closed Manager leaves closeCh closed    *)
(* and the process running.                                                *)
C11_CloseIsSafe ==
    [][closeCh = "closed" => (closeCh' = "closed" /\ ~panicked')]_vars

----------------------------------------------------------------------------
(* C13: Close does not interrupt a job in flight. A call of Close made     *)
(* while a send is in flight leaves that send in flight in a running       *)
(* process, so that the send ends by the return of client.Do.              *)
C13_CloseKeepsInflight ==
    [][(inflight # {} /\ (closeCh' # closeCh \/ panicked' # panicked))
          => (inflight' = inflight /\ wpc' = wpc /\ ~panicked')]_vars

\* The same for the call of Close that closes an open Manager: the send stays
\* in flight and its return is still possible afterwards.
C13_FirstCloseKeepsInflight ==
    /\ [][(inflight # {} /\ closeCh = "open" /\ closeCh' = "closed")
            => (inflight' = inflight /\ wpc' = wpc /\ ~panicked')]_vars
    /\ []((inflight # {} /\ ~panicked) =>
            /\ ENABLED Close
            /\ \A o \in Outcomes : ENABLED WorkerSendReturn(o))

----------------------------------------------------------------------------
----------------------------------------------------------------------------
(* C14: concurrent emit safety and conservation. With Dispatch calls       *)
(* running concurrently with each other and with the worker, no step of    *)
(* Dispatch waits or panics, and for every pair of a Dispatch call and an  *)
(* endpoint subscribed to its event exactly one of two things has happened *)
(* once the call has passed that endpoint: its job was put on the channel  *)
(* once, or one drop was logged for it; before that neither has happened.  *)
(* No other job is ever enqueued or dropped, and the log has one drop line *)
(* per dropped job.                                                        *)

\* Dispatch call c has finished the loop iteration of endpoint i.
PassedEndpoint(c, i) ==
    \/ calls[c].ret
    \/ \E p \in Producers :
          disp[p].pc = "loop" /\ disp[p].call = c /\ disp[p].idx > i

\* The log lines that report a dropped job for event e and endpoint name n.
DropLines(e, n) ==
    {k \in 1..Len(log) :
        log[k] = [msg |-> "dispatch queue full, dropping event",
                  event |-> e, name |-> n]}

C14_Conservation ==
    /\ \A c \in 1..Len(calls), i \in 1..Len(endpoints) :
          LET j    == JobOf(c, i)
              done == Count(hEnq, j) + (IF j \in hDrop THEN 1 ELSE 0)
          IN
          IF ReachedLoop(c) /\ calls[c].event \in endpoints[i].events
                            /\ PassedEndpoint(c, i)
          THEN done = 1
          ELSE done = 0
    /\ Range(hEnq) \cup hDrop \subseteq
          {JobOf(c, i) : c \in 1..Len(calls), i \in 1..Len(endpoints)}
    /\ \A e \in DispatchEvents, i \in 1..Len(endpoints) :
          Cardinality(DropLines(e, endpoints[i].name)) =
          Cardinality({j \in hDrop : j.ep = i /\ calls[j.call].event = e})

C14_ConcurrentEmit ==
    /\ []C14_Conservation
    /\ [](~panicked =>
            \A p \in Producers : disp[p].pc = "loop" => ENABLED DispatchStep(p))
    /\ [][disp' # disp => ~panicked']_vars

\* Two Dispatch calls have run interleaved (a job of one call went on the
\* channel between two jobs of the other) while the worker was inside a send,
\* and a job of one of them was dropped.
C14_Witness ==
    /\ ~panicked
    /\ inflight # {}
    /\ hDrop # {}
    /\ \E a, b, c \in 1..Len(hEnq) :
          /\ a < b /\ b < c
          /\ hEnq[a].call = hEnq[c].call
          /\ hEnq[a].call # hEnq[b].call

----------------------------------------------------------------------------
(* C15: every job is consumed exactly once. The worker takes the jobs in   *)
(* the order they were put on the channel, each at most once, and hands    *)
(* each to send at most once; while closeCh is open and every send         *)
(* returns, every job put on the channel is eventually taken by the worker *)
(* and handed to send: whenever jobs have been enqueued that the worker    *)
(* has not taken, a state follows in which it has taken all the jobs       *)
(* enqueued so far (a run enqueues a bounded number of them), unless       *)
(* closeCh is closed first.                                                *)

\* The jobs send has been called with: those handed to client.Do and those
\* whose request could not be built.
Handled(j) ==
    IF ValidURL(endpoints[j.ep].url)
    THEN Count(hSent, j) = 1
    ELSE Count(hSent, j) = 0 /\
         \E k \in 1..Len(log) :
            log[k] = [msg |-> "error creating request", name |-> endpoints[j.ep].name]

C15_TakenOnceInOrder ==
    /\ Len(hTaken) <= Len(hEnq)
    /\ hTaken = SubSeq(hEnq, 1, Len(hTaken))
    /\ hEnq = hTaken \o ch
    /\ \A k \in 1..Len(hTaken) :
          Count(hTaken, hTaken[k]) = 1 /\ Handled(hTaken[k])
    /\ Range(hSent) \subseteq Range(hTaken)

C15_ConsumedExactlyOnce ==
    /\ []C15_TakenOnceInOrder
    /\ (Len(hTaken) < Len(hEnq)) ~> (hTaken = hEnq \/ closeCh = "closed")

\* With closeCh open the worker has taken every job put on the channel, more
\* than one of them, one of them for the endpoint whose request cannot be
\* built.
C15_Witness ==
    /\ closeCh = "open"
    /\ Len(hEnq) > 1
    /\ hTaken = hEnq
    /\ wpc = "select"
    /\ \E k \in 1..Len(hTaken) : ~ValidURL(endpoints[hTaken[k].ep].url)
    /\ hSent # <<>>

----------------------------------------------------------------------------
(* C16: the Manager stays usable after a failed delivery. A send that ends *)
(* in a transport error or timeout, or in an error status, leaves the      *)
(* worker at its select in a running process with the channel, closeCh and *)
(* the producers untouched; from then on the worker can take a waiting job *)
(* and a producer can start and continue Dispatch calls, and with every    *)
(* send returning the jobs waiting or enqueued afterwards are taken and    *)
(* handed to send, unless closeCh is closed first.                         *)

\* The log lines send writes for a failed delivery.
SendFailureLines ==
    {k \in 1..Len(log) : log[k].msg \in {"error sending", "non-OK response"}}

C16_UsableAfterFailure ==
    /\ [][(hDone' # hDone /\ log' # log) =>
            /\ wpc' = "select"
            /\ ~panicked'
            /\ ch' = ch /\ closeCh' = closeCh /\ disp' = disp]_vars
    /\ []((SendFailureLines # {} /\ ~panicked) =>
            /\ (wpc = "select" /\ ch # <<>>) => ENABLED WorkerRecv
            /\ \A p \in Producers :
                  /\ disp[p].pc = "loop" => ENABLED DispatchStep(p)
                  /\ (disp[p].pc = "idle" /\ Len(calls) < MaxDispatch) =>
                        \A e \in DispatchEvents, d \in DataValues :
                            ENABLED DispatchBegin(p, e, d))
    /\ (SendFailureLines # {} /\ Len(hTaken) < Len(hEnq))
          ~> (hTaken = hEnq \/ closeCh = "closed")

\* The only send that has returned failed, and the worker is now inside the
\* send of a job of a later Dispatch call.
C16_Witness ==
    /\ ~panicked
    /\ Len(hDone) = 1
    /\ Cardinality(SendFailureLines) = 1
    /\ wpc = "sending"
    /\ \E j \in inflight : j.call > hDone[1].call

----------------------------------------------------------------------------
(* C17: signature presence and value. Every request handed to client.Do    *)
(* for an endpoint with a non-empty secret s carries the header            *)
(* X-Webhook-Signature, equal to "sha256=" followed by the hex encoding of *)
(* the HMAC-SHA256 of the request's body under key s; every request for an *)
(* endpoint with an empty secret carries no X-Webhook-Signature header.    *)
(* The body is the payload of the job the request was built for.           *)
C17_Signature ==
    /\ Len(hReq) = Len(hSent)
    /\ \A k \in 1..Len(hReq) :
          LET req == hReq[k]
              s   == endpoints[hSent[k].ep].secret
          IN
          /\ req.body = hSent[k].payload
          /\ req.body = JobOf(hSent[k].call, hSent[k].ep).payload
          /\ IF s # <<>>
             THEN /\ "X-Webhook-Signature" \in DOMAIN req.header
                  /\ req.header["X-Webhook-Signature"] =
                        <<[lit |-> "sha256="]>> \o HexEncode(HmacSha256(s, req.body))
             ELSE "X-Webhook-Signature" \notin DOMAIN req.header

\* Requests have gone out to an endpoint with a secret and to one without,
\* and two requests to the endpoint with a secret carry different bodies.
C17_Witness ==
    /\ \E k \in 1..Len(hReq) : endpoints[hSent[k].ep].secret = <<>>
    /\ \E k, l \in 1..Len(hReq) :
          /\ endpoints[hSent[k].ep].secret # <<>>
          /\ hSent[l].ep = hSent[k].ep
          /\ hReq[k].body # hReq[l].body

----------------------------------------------------------------------------
(* C18: documented signature header. When a secret is configured, each     *)
(* request carries its HMAC-SHA256 signature in the header named           *)
(* X-Listmonk-Signature, and the header value is the hex digest itself: a  *)
(* verifier that compares hex(HMAC-SHA256(body, secret)) with the header   *)
(* value accepts the request.                                              *)

\* The header the documentation names for the signature.
DocumentedSignatureHeader == "X-Listmonk-Signature"

\* verifySignature of the documentation: the hex HMAC-SHA256 of the raw body
\* under the secret, compared with the header value.
verifySignature(body, secret, signature) ==
    HexEncode(HmacSha256(secret, body)) = signature

C18_DocumentedSignature ==
    \A k \in 1..Len(hReq) :
        LET req == hReq[k]
            s   == endpoints[hSent[k].ep].secret
        IN
        s # <<>> =>
            /\ DocumentedSignatureHeader \in DOMAIN req.header
            /\ verifySignature(req.body, s, req.header[DocumentedSignatureHeader])

----------------------------------------------------------------------------
(* C19: response classification. A send that returns a response whose      *)
(* status is not 2xx appends a failure line for that endpoint to the log   *)
(* and discards the job; a send that returns a 2xx response leaves the log *)
(* as it is; in neither case does the job go back on the channel.          *)

\* The status codes that mean success.
Is2xx(status) == status \in 200..299

\* The step has appended one failure line of send for the endpoint of job.
FailureLogged(job) ==
    /\ Len(log') = Len(log) + 1
    /\ SubSeq(log', 1, Len(log)) = log
    /\ log'[Len(log')].msg \in {"error sending", "non-OK response"}
    /\ log'[Len(log')].name = endpoints[job.ep].name

C19_ResponseClassification ==
    [][\A o \in Outcomes :
          (~o.err /\ WorkerSendReturn(o)) =>
              LET job == hDone'[Len(hDone')] IN
              /\ ch' = ch
              /\ job \notin inflight'
              /\ IF Is2xx(o.status) THEN log' = log ELSE FailureLogged(job)]_vars

\* What the code does: the line is written for a status of 400 and above, and
\* for no status below 400.
C19_ErrorStatusLogged ==
    [][\A o \in Outcomes :
          (~o.err /\ WorkerSendReturn(o)) =>
              LET job == hDone'[Len(hDone')] IN
              /\ ch' = ch
              /\ job \notin inflight'
              /\ IF o.status >= 400 THEN FailureLogged(job) ELSE log' = log]_vars

----------------------------------------------------------------------------
(* C20: serialization failure aborts the whole emit. A Dispatch call, made *)
(* on a Manager with endpoints, whose payload json.Marshal cannot encode   *)
(* writes one log line and returns: it puts no job on the channel, drops   *)
(* none, and leaves the channel as it is. No job of such a call is ever    *)
(* enqueued, dropped or taken, and the log holds one marshalling line per  *)
(* such call.                                                              *)

\* The Dispatch calls whose data json.Marshal rejects.
UnencodableCalls == {c \in 1..Len(calls) : calls[c].data = "chan"}

MarshalLines == {k \in 1..Len(log) : log[k] = [msg |-> "error marshalling payload"]}

C20_MarshalFailureAborts ==
    /\ [][(Len(calls') = Len(calls) + 1 /\ calls'[Len(calls')].data = "chan"
                                        /\ Len(endpoints) > 0) =>
            /\ log' = Append(log, [msg |-> "error marshalling payload"])
            /\ calls'[Len(calls')].ret
            /\ ch' = ch /\ hEnq' = hEnq /\ hDrop' = hDrop /\ disp' = disp]_vars
    /\ [](/\ \A j \in Range(hEnq) \cup hDrop \cup Range(ch) : j.call \notin UnencodableCalls
          /\ \A p \in Producers :
                disp[p].pc = "loop" => disp[p].call \notin UnencodableCalls
          /\ Len(endpoints) > 0 =>
                Cardinality(MarshalLines) = Cardinality(UnencodableCalls))

\* A call with a value that cannot be encoded has returned after an earlier
\* call put jobs on the channel, which still holds them; the other producer
\* is inside its loop.
C20_Witness ==
    /\ ~panicked
    /\ \E c \in UnencodableCalls : c > 1 /\ calls[c].ret
    /\ MarshalLines # {}
    /\ Len(ch) > 0
    /\ \E p \in Producers : disp[p].pc = "loop"

----------------------------------------------------------------------------
(* C21: network I/O happens only in the worker. A request is handed to     *)
(* client.Do only in a step of the worker goroutine, which has just taken  *)
(* the request's job from the head of the channel: no step in which a      *)
(* producer moves inside Dispatch, and no call of Close, sends anything;   *)
(* a send is in flight only while the worker is inside send; every job     *)
(* sent was taken from the channel before.                                 *)
C21_SendOnlyInWorker ==
    /\ [][(hSent' # hSent \/ hReq' # hReq) =>
            /\ disp' = disp /\ calls' = calls /\ closeCh' = closeCh
            /\ wpc = "select" /\ wpc' = "sending"
            /\ ch # <<>> /\ ch' = Tail(ch)
            /\ hTaken' = Append(hTaken, Head(ch))
            /\ hSent' = Append(hSent, Head(ch))
            /\ inflight' = {Head(ch)}]_vars
    /\ [][(disp' # disp \/ calls' # calls) =>
            (hSent' = hSent /\ hReq' = hReq /\ inflight' = inflight
                            /\ hDone' = hDone /\ wpc' = wpc)]_vars
    /\ [](/\ inflight # {} => wpc = "sending"
          /\ Range(hSent) \subseteq Range(hTaken)
          /\ Len(hReq) = Len(hSent))

\* A Dispatch call has returned while the request for one of its jobs is
\* still in flight in the worker, and the other producer is inside its loop.
C21_Witness ==
    /\ ~panicked
    /\ \E j \in inflight : calls[j.call].ret
    /\ \E p \in Producers : disp[p].pc = "loop"

----------------------------------------------------------------------------
(* C22: empty configuration is a no-op. On a Manager built from zero       *)
(* endpoint records every Dispatch call, for every event and data value,   *)
(* returns in its first step: no producer is ever inside the loop, nothing *)
(* is put on the channel, dropped, taken or sent, and nothing is logged.   *)
C22_EmptyConfigNoOp ==
    Len(endpoints) = 0 =>
        /\ \A c \in 1..Len(calls) : calls[c].ret
        /\ \A p \in Producers : disp[p].pc = "idle"
        /\ ch = <<>> /\ hEnq = <<>> /\ hDrop = {}
        /\ hTaken = <<>> /\ hSent = <<>> /\ hReq = <<>> /\ hDone = <<>>
        /\ inflight = {} /\ log = <<>>
        /\ (~panicked /\ Len(calls) < MaxDispatch) =>
              \A p \in Producers, e \in DispatchEvents, d \in DataValues :
                  ENABLED DispatchBegin(p, e, d)

\* On the Manager without endpoints Dispatch has been called with both
\* events, once with a value that cannot be encoded.
C22_Witness ==
    /\ Len(endpoints) = 0
    /\ {calls[c].event : c \in 1..Len(calls)} = DispatchEvents
    /\ \E c \in 1..Len(calls) : calls[c].data = "chan"

----------------------------------------------------------------------------
(* C23: HasEndpoints returns false exactly when the Manager was built from *)
(* the empty configuration list and true when it was built from a          *)
(* non-empty one, and no step (of Dispatch, the worker or Close) changes   *)
(* its result.                                                             *)
C23_HasEndpoints ==
    /\ [](/\ \E opts \in OptLists : endpoints = New(opts)
          /\ \A opts \in OptLists :
                endpoints = New(opts) => (HasEndpoints <=> opts # <<>>))
    /\ [][HasEndpoints' = HasEndpoints]_vars

\* A Manager built from a single record, after Dispatch calls, a delivery
\* and Close.
C23_Witness ==
    /\ endpoints = New(<<OptA>>)
    /\ HasEndpoints
    /\ Len(calls) > 0
    /\ Len(hDone) > 0
    /\ closeCh = "closed"
    /\ wpc = "stopped"

----------------------------------------------------------------------------
(* C24: closed event set on dispatch. Every event for which a job has been *)
(* put on the channel, taken by the worker or sent in a request is one of  *)
(* the members of AllEvents.                                               *)
C24_ClosedEventSet ==
    \A j \in Range(hEnq) \cup Range(hTaken) \cup Range(hSent) :
        PayloadEvent(j.payload) \in Range(AllEvents)

----------------------------------------------------------------------------
(* C25: AllEvents is exactly the set of the 11 declared event constants,   *)
(* 6 for subscribers, 2 for campaigns and 3 for tracking: it has length    *)
(* 11, holds each constant, holds nothing else, and holds nothing twice;   *)
(* the members of AllEvents an endpoint subscribes to are among the 11.    *)

SubscriberEvents ==
    {EventSubscriberCreated, EventSubscriberUpdated, EventSubscriberUnsubscribed,
     EventSubscriberConfirmed, EventSubscriberBlocklisted, EventSubscriberDeleted}

CampaignEvents == {EventCampaignStarted, EventCampaignFinished}

TrackingEvents == {EventLinkClick, EventEmailOpen, EventBounce}

C25_AllEventsExact ==
    /\ Len(AllEvents) = 11
    /\ Range(AllEvents) = SubscriberEvents \cup CampaignEvents \cup TrackingEvents
    /\ Cardinality(Range(AllEvents)) = 11
    /\ Cardinality(SubscriberEvents) = 6
    /\ Cardinality(CampaignEvents) = 2
    /\ Cardinality(TrackingEvents) = 3
    /\ \A i \in 1..Len(endpoints) :
          endpoints[i].events \cap Range(AllEvents) \subseteq
              SubscriberEvents \cup CampaignEvents \cup TrackingEvents

\* A member of AllEvents has been dispatched and a request for it sent, on a
\* Manager one of whose endpoints subscribes to two more members.
C25_Witness ==
    /\ \E k \in 1..Len(hSent) : PayloadEvent(hSent[k].payload) \in Range(AllEvents)
    /\ \E i \in 1..Len(endpoints) :
          Cardinality(endpoints[i].events \cap Range(AllEvents)) > 1

----------------------------------------------------------------------------
(* C26: exactly one worker. New starts exactly one worker goroutine for    *)
(* the Manager, whatever the number of endpoints; no step of Dispatch, of  *)
(* the worker, of send or of Close starts another or changes the number;   *)
(* the channel is consumed by that worker alone: a job leaves the channel  *)
(* only in a step of the worker at its select, one job at a time, and at   *)
(* most one job is inside send.                                            *)
C26_ExactlyOneWorker ==
    /\ [](workers = 1)
    /\ [][workers' = workers]_vars
    /\ [](Cardinality(inflight) <= 1)
    /\ [][(hTaken' # hTaken \/ Len(ch') < Len(ch)) =>
            /\ wpc = "select"
            /\ ch # <<>> /\ ch' = Tail(ch)
            /\ hTaken' = Append(hTaken, Head(ch))]_vars

\* The worker of a Manager with two endpoints has taken jobs of both while
\* both producers were calling Dispatch, and has stopped after Close.
C26_Witness ==
    /\ workers = 1
    /\ Len(endpoints) > 1
    /\ {hTaken[k].ep : k \in 1..Len(hTaken)} = 1..Len(endpoints)
    /\ Len(calls) > 1
    /\ wpc = "stopped"

----------------------------------------------------------------------------
(* C27: endpoint immutability. After New has returned no step of Dispatch, *)
(* of the worker and its send, or of Close changes the endpoint slice: the *)
(* number and order of the endpoints and each endpoint's uuid, name, url,  *)
(* secret, event set, timeout and connection limit stay as New built them. *)
C27_EndpointsImmutable ==
    /\ [][/\ Len(endpoints') = Len(endpoints)
          /\ \A i \in 1..Len(endpoints) :
                /\ endpoints'[i].uuid = endpoints[i].uuid
                /\ endpoints'[i].name = endpoints[i].name
                /\ endpoints'[i].url = endpoints[i].url
                /\ endpoints'[i].secret = endpoints[i].secret
                /\ endpoints'[i].events = endpoints[i].events
                /\ endpoints'[i].timeout = endpoints[i].timeout
                /\ endpoints'[i].maxConns = endpoints[i].maxConns]_vars
    /\ [](\E opts \in OptLists : endpoints = New(opts))

\* The Manager of two endpoints after a Dispatch, a failed delivery, a drop
\* and Close.
C27_Witness ==
    /\ endpoints = New(<<OptA, OptB>>)
    /\ SendFailureLines # {}
    /\ hDrop # {}
    /\ closeCh = "closed"

----------------------------------------------------------------------------
(* C28: defaults on zero configuration. An endpoint whose record has a     *)
(* Timeout of zero has a timeout of 5 (seconds), one whose record has      *)
(* MaxConns of zero has a connection limit of 5; a non-zero configured     *)
(* value is used unchanged.                                                *)
C28_Defaults ==
    \A opts \in OptLists :
        endpoints = New(opts) =>
            \A i \in 1..Len(opts) :
                /\ opts[i].Timeout = 0 => endpoints[i].timeout = 5
                /\ opts[i].Timeout # 0 => endpoints[i].timeout = opts[i].Timeout
                /\ opts[i].MaxConns = 0 => endpoints[i].maxConns = 5
                /\ opts[i].MaxConns # 0 => endpoints[i].maxConns = opts[i].MaxConns

\* The Manager has one endpoint configured with zeros and one with non-zero
\* values, and has delivered to both.
C28_Witness ==
    /\ \E opts \in OptLists :
          /\ endpoints = New(opts)
          /\ \E i, j \in 1..Len(opts) :
                /\ opts[i].Timeout = 0 /\ opts[i].MaxConns = 0
                /\ opts[j].Timeout # 0 /\ opts[j].MaxConns # 0
                /\ {i, j} \subseteq {hDone[k].ep : k \in 1..Len(hDone)}

----------------------------------------------------------------------------
(* C29: shared, unmodified payload. All jobs built by one Dispatch call,   *)
(* enqueued or dropped, carry the same payload bytes, the bytes of the one *)
(* encoding of that call; the worker receives each job as it was enqueued; *)
(* the body of each request is the payload of its job; and the signature,  *)
(* where there is one, is computed over those bytes.                       *)
C29_SharedPayload ==
    /\ \A j1, j2 \in Range(hEnq) \cup hDrop :
          j1.call = j2.call => j1.payload = j2.payload
    /\ \A j \in Range(hEnq) \cup hDrop :
          j.payload = <<"event", calls[j.call].event, "timestamp", Now(j.call),
                        "data", calls[j.call].data>>
    /\ \A k \in 1..Len(hTaken) : hTaken[k] = hEnq[k]
    /\ Range(ch) \subseteq Range(hEnq)
    /\ \A k \in 1..Len(hReq) :
          /\ hSent[k] \in Range(hEnq)
          /\ hReq[k].body = hSent[k].payload
          /\ endpoints[hSent[k].ep].secret # <<>> =>
                hReq[k].header["X-Webhook-Signature"] =
                    <<[lit |-> "sha256="]>> \o
                    HexEncode(HmacSha256(endpoints[hSent[k].ep].secret,
                                         hSent[k].payload))

\* Two requests of one Dispatch call have been sent to two endpoints, one of
\* them signed, and a later call's request carries another body.
C29_Witness ==
    /\ \E k, l \in 1..Len(hReq) :
          /\ hSent[k].call = hSent[l].call
          /\ hSent[k].ep # hSent[l].ep
          /\ hReq[k].body = hReq[l].body
          /\ "X-Webhook-Signature" \in DOMAIN hReq[k].header
    /\ \E k, l \in 1..Len(hReq) : hReq[k].body # hReq[l].body

----------------------------------------------------------------------------
(* C30: signature determinism and sensitivity. computeHMAC(payload,        *)
(* secret) gives the same string for the same inputs, different strings    *)
(* for two payloads that differ, and different strings for two different   *)
(* secrets over the same payload.                                          *)

\* Byte values of the secrets tried: the zero byte and a letter.
SecretBytes == {0, 107}

\* The secrets tried: every byte string up to one byte longer than the block.
SecretInputs == UNION {[1..n -> SecretBytes] : n \in 0..(BlockSize + 1)}

\* The payloads tried: the encodings Dispatch can produce.
PayloadInputs ==
    {Marshal(e, Now(n), "map").b : e \in DispatchEvents, n \in 1..MaxDispatch}

\* The inputs computeHMAC is applied to in a state: all inputs tried, in the
\* state New leaves, and afterwards the secrets of the Manager's endpoints
\* and the payloads waiting on the channel.
SecretsAt ==
    {endpoints[i].secret : i \in 1..Len(endpoints)}
    \cup (IF calls = <<>> THEN SecretInputs ELSE {})

PayloadsAt ==
    {ch[k].payload : k \in 1..Len(ch)}
    \cup (IF calls = <<>> THEN PayloadInputs ELSE {})

RECURSIVE TrimZeros(_)
TrimZeros(s) ==
    IF s # <<>> /\ s[Len(s)] = 0 THEN TrimZeros(SubSeq(s, 1, Len(s) - 1)) ELSE s

----------------------------------------------------------------------------
(* C31: Dispatch after Close. A Dispatch call that begins after Close can  *)
(* take each of its steps at once, and no step of Dispatch taken after     *)
(* Close makes the process panic (Close closes closeCh only, never the job *)
(* channel). An iteration of such a call for a subscribed endpoint appends *)
(* its job to the channel while the channel holds fewer than QueueCap jobs *)
(* and drops it otherwise. Once the worker has stopped it stays stopped:   *)
(* nothing is received from the channel and no request is made any more.   *)
C31_DispatchAfterClose ==
    /\ [](( ~panicked /\ closeCh = "closed" ) =>
            \A p \in Producers :
                /\ disp[p].pc = "loop" => ENABLED DispatchStep(p)
                /\ (disp[p].pc = "idle" /\ Len(calls) < MaxDispatch) =>
                      \A e \in DispatchEvents, d \in DataValues :
                          ENABLED DispatchBegin(p, e, d))
    /\ [][ /\ ( closeCh = "closed" /\ (calls' # calls \/ disp' # disp) ) =>
                  ~panicked'
           /\ \A p \in Producers :
                 LET d == disp[p] IN
                 ( /\ d.pc = "loop"
                   /\ hBegin[d.call].closed
                   /\ disp'[p] # d
                   /\ d.event \in endpoints[d.idx].events ) =>
                     LET job == [ep |-> d.idx, payload |-> d.b, call |-> d.call] IN
                     /\ closeCh = "closed"
                     /\ IF Len(ch) < QueueCap
                        THEN /\ ch' = Append(ch, job)
                             /\ hEnq' = Append(hEnq, job)
                             /\ hDrop' = hDrop
                        ELSE /\ ch' = ch
                             /\ hEnq' = hEnq
                             /\ hDrop' = hDrop \cup {job}
           /\ wpc = "stopped" =>
                 /\ wpc' = "stopped"
                 /\ hTaken' = hTaken
                 /\ hSent' = hSent
                 /\ hReq' = hReq
                 /\ inflight' = inflight ]_vars

\* The worker has stopped without having sent anything; a call that began
\* after Close has put its job for the first endpoint on the channel, which
\* is now full, and stands before the second endpoint, which is subscribed
\* to its event too.
C31_Witness ==
    /\ ~panicked
    /\ wpc = "stopped"
    /\ hSent = <<>>
    /\ Len(ch) = QueueCap
    /\ \E p \in Producers :
          /\ disp[p].pc = "loop"
          /\ hBegin[disp[p].call].closed
          /\ disp[p].idx = 2
          /\ ch[Len(ch)] = JobOf(disp[p].call, 1)
          /\ AtEnqueue(p)

----------------------------------------------------------------------------
(* C32: enqueue order within one emit. The jobs of one Dispatch call go on *)
(* the channel in the order of the endpoint list. For two calls of which   *)
(* the first had returned when the second began, and every endpoint: if    *)
(* the jobs of both calls for the endpoint were put on the channel, the    *)
(* first call's job was put there first; if the worker has received the    *)
(* second call's job, it received the first call's job before it; and if   *)
(* requests were made for both, the first call's request was made, and     *)
(* returned, before the second's.                                          *)

\* x stands before y in the sequence s.
Before(s, x, y) ==
    \E a, b \in 1..Len(s) : a < b /\ s[a] = x /\ s[b] = y

\* The call of job x had returned when the call of job y began, and both
\* jobs are for the same endpoint.
Precedes(x, y) ==
    x.ep = y.ep /\ x.call < y.call /\ x.call \in hBegin[y.call].prior

\* In the sequence s of jobs, the job of the earlier of two such calls
\* stands first.
InCallOrder(s) ==
    \A a, b \in 1..Len(s) : Precedes(s[a], s[b]) => a < b

C32_EnqueueOrder ==
    /\ Len(hBegin) = Len(calls)
    /\ \A a, b \in 1..Len(hEnq) :
          (a < b /\ hEnq[a].call = hEnq[b].call) => hEnq[a].ep < hEnq[b].ep
    /\ InCallOrder(hEnq)
    /\ InCallOrder(hSent)
    /\ \A a \in 1..Len(hEnq), b \in 1..Len(hTaken) :
          Precedes(hEnq[a], hTaken[b]) =>
              \E x \in 1..Len(hTaken) : x < b /\ hTaken[x] = hEnq[a]
    /\ \A a \in 1..Len(hSent), b \in 1..Len(hDone) :
          Precedes(hSent[a], hDone[b]) =>
              \E x \in 1..Len(hDone) : x < b /\ hDone[x] = hSent[a]

\* The first call had returned when the second began; both calls put their
\* jobs for two endpoints on the channel, and all four requests have been
\* made and have returned.
C32_Witness ==
    /\ Len(calls) = 2
    /\ 1 \in hBegin[2].prior
    /\ Len(endpoints) = 2
    /\ Len(hDone) = 4
    /\ \A i \in 1..2 : Before(hDone, JobOf(1, i), JobOf(2, i))

\* Two calls that ran at the same time: a job of the second call stands on
\* the channel between two jobs of the first.
C32_Interleaved ==
    /\ Len(calls) = 2
    /\ 1 \notin hBegin[2].prior
    /\ Len(hEnq) >= 3
    /\ hEnq[1].call = 1
    /\ hEnq[2].call = 2
    /\ hEnq[3].call = 1

----------------------------------------------------------------------------
(* The test receiver (dev/webhook-receiver). *)

\* The values of WEBHOOK_SECRET the receiver is started with: unset, "k",
\* "k1", "k2" (an environment string holds no zero byte).
ReceiverSecretInputs == {<<>>, <<107>>, <<107, 49>>, <<107, 50>>}

\* r.Header.Get("X-Webhook-Signature"): the header's value, or the empty
\* string when the request has no such header.
HeaderGet(req) ==
    IF "X-Webhook-Signature" \in DOMAIN req.header
    THEN req.header["X-Webhook-Signature"]
    ELSE <<>>

\* strings.HasPrefix(signature, "sha256=")
HasPrefix(signature) ==
    Len(signature) > 0 /\ signature[1] = [lit |-> "sha256="]

\* The receiver's own computeHMAC: the hex HMAC-SHA256 of the payload under
\* the secret.
ReceiverComputeHMAC(payload, secret) == HexEncode(HmacSha256(secret, payload))

\* A verification that trims the prefix where there is one and never asks
\* for it.
ServerVerifySignatureAnyPrefix(secret, payload, signature) ==
    (IF HasPrefix(signature) THEN Tail(signature) ELSE signature)
        = ReceiverComputeHMAC(payload, secret)

\* Server.verifySignature for a receiver whose secret is `secret`.
ServerVerifySignature(secret, payload, signature) ==
    IF ~HasPrefix(signature)
    THEN FALSE
    ELSE Tail(signature) = ReceiverComputeHMAC(payload, secret)

----------------------------------------------------------------------------
(* C33: receiver round trip. Every request the dispatcher has signed with  *)
(* the secret s of its endpoint is accepted by the receiver's              *)
(* verifySignature when the receiver's secret is s; it is rejected when    *)
(* the receiver's secret differs from s, when the body differs from the    *)
(* one signed, and when the header value lacks the "sha256=" prefix.       *)

\* The bodies a receiver may be handed in place of the one signed: the
\* encodings Dispatch can produce, and the signed body with a line end added.
OtherBodies(b) == (PayloadInputs \cup {Append(b, "\n")}) \ {b}

\* The requests made so far that carry a signature.
SignedRequests ==
    {k \in 1..Len(hReq) : endpoints[hSent[k].ep].secret # <<>>}

----------------------------------------------------------------------------
(* C34: autoresponder sent at most once. For every campaign, subscriber    *)
(* and list, SendAutoresponder has sent the campaign to the subscriber for *)
(* the list at most once, whatever invocations of the hook have run and    *)
(* however they were interleaved.                                          *)

\* The campaign, subscriber and list of a call of SendAutoresponder.
Triple(e) == <<e.camp, e.sub, e.list>>

\* The calls of SendAutoresponder that sent their message.
Sent == {k \in 1..Len(arSent) : arSent[k].ok}

C34_SentAtMostOnce ==
    \A a, b \in Sent :
        Triple(arSent[a]) = Triple(arSent[b]) => a = b

----------------------------------------------------------------------------
(* C35: autoresponder trigger condition. Every call of SendAutoresponder   *)
(* was made by an invocation of the hook whose subscriber is enabled and   *)
(* whose isConfirmation argument equals ar_trigger_on_confirm of the       *)
(* campaign; every row of the history table is for a triple a message was  *)
(* sent for. So an invocation for a subscriber that is not     *)
(* enabled, or a campaign whose flag differs from isConfirmation, leads to *)
(* no send and no row: such an invocation returns at once, and the step at *)
(* such a campaign goes on to the next campaign.                           *)

\* ar_trigger_on_confirm of the campaign with this ID among the rows of a
\* list.
FlagOf(campaignID, listID) ==
    LET rows == AutoresponderCampaigns(listID)
        k    == CHOOSE i \in 1..Len(rows) : rows[i].ID = campaignID
    IN rows[k].ARTriggerOnConfirm

C35_TriggerCondition ==
    /\ [](/\ \A k \in 1..Len(arSent) :
                LET e == arSent[k]
                    c == hookCalls[e.call]
                IN
                /\ c.sub.Status = "enabled"
                /\ c.sub.ID = e.sub
                /\ \E i \in 1..Len(c.listIDs) : c.listIDs[i] = e.list
                /\ \E i \in 1..Len(AutoresponderCampaigns(e.list)) :
                      AutoresponderCampaigns(e.list)[i].ID = e.camp
                /\ FlagOf(e.camp, e.list) = c.isConfirmation
          /\ \A t \in arHistory :
                \E k \in Sent : Triple(arSent[k]) = t)
    /\ [][ /\ ( Len(hookCalls') > Len(hookCalls)
                /\ hookCalls'[Len(hookCalls')].sub.Status # "enabled" ) =>
                  /\ hookCalls'[Len(hookCalls')].ret = "nil"
                  /\ \A h \in Hooks : hook'[h].pc \in {"idle", "done"}
                                      \/ hook'[h] = hook[h]
                  /\ UNCHANGED <<arSent, arHistory, hookLog>>
           /\ \A h \in Hooks :
                 LET s == hook[h] IN
                 ( /\ s.pc = "check"
                   /\ hook'[h] # s
                   /\ s.camps[s.ci].ARTriggerOnConfirm # s.isConfirmation ) =>
                     /\ hook'[h].pc # "send"
                     /\ UNCHANGED <<arSent, arHistory, hookLog>> ]_vars

\* One invocation, on confirmation, has sent and recorded a campaign of
\* list 1 and passed over the campaign of list 2 that is sent on
\* subscription; the other invocation was for the subscriber that is not
\* enabled and has returned.
C35_Witness ==
    /\ Len(hookCalls) = 2
    /\ \A c \in 1..2 : hookCalls[c].ret = "nil"
    /\ \E c \in 1..2 : hookCalls[c].sub.Status # "enabled"
    /\ \E c \in 1..2 :
          /\ hookCalls[c].isConfirmation
          /\ hookCalls[c].listIDs = <<1, 2>>
          /\ \E k \in Sent : arSent[k].call = c /\ arSent[k].list = 1
    /\ arHistory # {}
    /\ \A k \in 1..Len(arSent) : arSent[k].camp # 12

----------------------------------------------------------------------------
(* C36: autoresponder history follows a successful send. A row for a       *)
(* campaign, a subscriber and a list is added to the history table only by *)
(* an invocation of the hook whose own call of SendAutoresponder for that  *)
(* triple has just succeeded. A call of SendAutoresponder that returns an  *)
(* error leaves the table as it was and takes the hook on to the next      *)
(* campaign without recording. And as long as the table holds no row for   *)
(* the triple, an invocation whose trigger matches and whose check         *)
(* succeeds goes on to send: after a failed send a later trigger sends     *)
(* the campaign again.                                                     *)
C36_HistoryFollowsSend ==
    [][ /\ arHistory' # arHistory =>
              \E h \in Hooks :
                  LET s == hook[h]
                      t == <<s.camps[s.ci].ID, s.sub.ID, s.listIDs[s.li]>>
                  IN
                  /\ s.pc = "record"
                  /\ hook'[h] # s
                  /\ arHistory' = arHistory \cup {t}
                  /\ \E k \in Sent :
                        /\ Triple(arSent[k]) = t
                        /\ arSent[k].call = s.call
                        /\ \A j \in (k + 1)..Len(arSent) : arSent[j].call # s.call
        /\ ( Len(arSent') > Len(arSent) /\ ~arSent'[Len(arSent')].ok ) =>
              /\ arHistory' = arHistory
              /\ \A h \in Hooks : hook'[h] # hook[h] => hook'[h].pc # "record"
              /\ Len(hookLog') = Len(hookLog) + 1
              /\ hookLog'[Len(hookLog')].msg = "error sending autoresponder"
        /\ \A h \in Hooks :
              LET s == hook[h] IN
              ( /\ s.pc = "check"
                /\ hook'[h] # s
                /\ hookLog' = hookLog
                /\ s.camps[s.ci].ARTriggerOnConfirm = s.isConfirmation
                /\ <<s.camps[s.ci].ID, s.sub.ID, s.listIDs[s.li]>> \notin arHistory ) =>
                  hook'[h] = [s EXCEPT !.pc = "send"] ]_vars

\* A call of SendAutoresponder for a triple returned an error; a later call
\* for the same triple, made by the other invocation, sent the message, and
\* the row is in the table.
C36_Witness ==
    \E a, b \in 1..Len(arSent) :
        /\ a < b
        /\ ~arSent[a].ok
        /\ arSent[b].ok
        /\ Triple(arSent[a]) = Triple(arSent[b])
        /\ arSent[a].call # arSent[b].call
        /\ Triple(arSent[b]) \in arHistory
        /\ Cardinality({k \in Sent : Triple(arSent[k]) = Triple(arSent[b])}) = 1

----------------------------------------------------------------------------
(* C37: autoresponder error isolation. A step of the hook that ends in an  *)
(* error (it prints a line) goes on with the loop it is in: after an error *)
(* of GetAutorespondersForList the hook is at the next list, after an      *)
(* error of HasReceivedAutoresponder, SendAutoresponder or                 *)
(* RecordAutoresponderSent it is at the next campaign of the list, or at   *)
(* the next list after the last campaign; only after the last list does it *)
(* return. The hook returns from inside its loops at no other place, and   *)
(* what it returns to its caller is always nil.                            *)
C37_ErrorIsolation ==
    /\ [](\A c \in 1..Len(hookCalls) : hookCalls[c].ret \in {"none", "nil"})
    /\ [][\A h \in Hooks :
            LET s  == hook[h]
                s2 == hook'[h]
                nextList ==
                    IF s.li < Len(s.listIDs)
                    THEN /\ s2.pc = "fetch"
                         /\ s2.li = s.li + 1
                         /\ s2.listIDs = s.listIDs
                         /\ s2.call = s.call
                    ELSE /\ s2.pc = "done"
                         /\ hookCalls'[s.call].ret = "nil"
                nextCamp ==
                    IF s.ci < Len(s.camps)
                    THEN /\ s2.pc = "check"
                         /\ s2.ci = s.ci + 1
                         /\ s2.li = s.li
                         /\ s2.camps = s.camps
                         /\ s2.call = s.call
                    ELSE nextList
            IN
            /\ ( s2 # s /\ hookLog' # hookLog /\ s.pc = "fetch" ) => nextList
            /\ ( s2 # s /\ hookLog' # hookLog
                 /\ s.pc \in {"check", "send", "record"} ) => nextCamp
            /\ ( s2 # s /\ s2.pc = "done" /\ s.pc # "idle" ) =>
                  /\ s.li = Len(s.listIDs)
                  /\ s.pc # "fetch" => s.ci = Len(s.camps)
                  /\ hookCalls'[s.call].ret = "nil" ]_vars

\* Both invocations have returned nil. One, for list 1 alone, met an error
\* of SendAutoresponder at the first campaign and sent the second. The other,
\* for lists 1 and 2, met an error of GetAutorespondersForList at list 1 and
\* sent a campaign of list 2.
C37_Witness ==
    \E c1, c2 \in 1..Len(hookCalls) :
        /\ hookCalls[c1].ret = "nil"
        /\ hookCalls[c2].ret = "nil"
        /\ hookCalls[c1].listIDs = <<1>>
        /\ hookCalls[c2].listIDs = <<1, 2>>
        /\ \E a, b \in 1..Len(arSent) :
              /\ a < b
              /\ arSent[a].call = c1 /\ ~arSent[a].ok /\ arSent[a].camp = 10
              /\ arSent[b].call = c1 /\ arSent[b].ok /\ arSent[b].camp = 11
        /\ \E k \in 1..Len(hookLog) :
              /\ hookLog[k].from = "hook"
              /\ hookLog[k].msg = "error fetching autoresponders for list"
              /\ hookLog[k].list = 1
        /\ \E k \in Sent : arSent[k].call = c2 /\ arSent[k].list = 2
        /\ \A k \in 1..Len(arSent) : arSent[k].call = c2 => arSent[k].list = 2

====
